---- MODULE Spec2Model ----
(***************************************************************************)
(* Model of the invito-backend registration pipeline (create_user_handler), *)
(* the user store it talks to, and the tokio broadcast hub that fans the    *)
(* "user created" events out to the live connections (sse_handler).         *)
(* The list, PATCH and DELETE handlers (users_list_handler,                 *)
(* edit_user_handler, delete_user_handler) are modelled beside it.          *)
(*                                                                          *)
(* Every store round trip (.await) is one step; the code that runs between  *)
(* two round trips is local to the request and is folded into the step that *)
(* follows it, except where it touches the shared hub.  A handler's locals  *)
(* are dropped when it returns or its task unwinds.                         *)
(***************************************************************************)
EXTENDS Integers, Sequences, FiniteSets, TLC

\* ---------------------------------------------------------------- bounds
NumReqs  == 2      \* concurrent request tasks
NumSubs  == 2      \* live connections
NumEds   == 2      \* concurrent PATCH request tasks
MaxUsers == 2      \* rows ever inserted
MaxCalls == 3      \* POST requests ever started
MaxDels  == 3      \* DELETE requests ever served
MaxRows  == 12     \* rows of the table a list request is served from
MaxPage  == 3      \* small page numbers a client sends
MaxLimit == 3      \* small limits a client sends

\* capacity of the broadcast channel (set where the channel is created)
Capacity == 1

Reqs == 1..NumReqs
Subs == 1..NumSubs
Eds == 1..NumEds

\* ---------------------------------------------------------------- inputs
\* A user name is a sequence of characters; a character is one or two bytes
\* long in UTF-8.
TwoByteChars == {"e_acute"}

Names == { <<"a","n","n">>, <<"a","n","n","a">>, <<"a","b">>, <<"a","b","e_acute">> }

Emails == {"a@x.com", "b@x.com"}

\* first four characters of the textual form of a fresh v4 uuid
Suffixes == { <<"1","f","2","a">>, <<"0","0","0","0">> }

UnknownCode == <<"n","o","p","e">>

VARIABLES
  users,     \* the users table: id -> row
  nextId,    \* ids handed out so far + 1
  calls,     \* POST requests started so far
  pc,        \* position of each request task
  body,      \* CreateUserSchema of the request
  user,      \* row returned by the referral lookup ({} or {row})
  row,       \* row returned by the INSERT ({} or {row})
  status,    \* outcome the client of the request sees
  dberr,     \* error the store returned to the request's INSERT
  delta,     \* history: rows changed by the request's credit statement
  credited,  \* history: id -> credit statements that matched the row
  sent,      \* every event the hub accepted, in send order
  rxpc,      \* position of each live connection
  next,      \* receiver's next position in the channel
  start,     \* history: channel tail when the receiver was created
  early,     \* history: an event was already queued when the initial message went out
  out,       \* messages streamed to the client so far
  ring,      \* the channel's buffer: the values it still retains, oldest first
  sends,     \* history: calls of Sender::send so far
  dels,      \* DELETE requests served so far
  delRes,    \* id and outcome of the latest DELETE request
  epc,       \* position of each PATCH request task
  eid,       \* Path(id) of the PATCH request
  patch,     \* UpdateUserSchema of the PATCH request
  snap,      \* row the PATCH handler read ({} or {row})
  estatus,   \* outcome the client of the PATCH request sees
  listReq,   \* FilterOptions of the latest list request
  listRes    \* response to the latest list request

reqVars == <<calls, pc, body, user, row, status, dberr, delta>>
dbVars  == <<users, nextId, credited>>
hubVars == <<sent, rxpc, next, start, early, out>>
pubVars == <<ring, sends>>
crudVars == <<dels, delRes, epc, eid, patch, snap, estatus>>
listVars == <<listReq, listRes>>
extVars == <<crudVars, listVars>>
vars    == <<users, nextId, credited, calls, pc, body, user, row, status, dberr,
             delta, sent, rxpc, next, start, early, out, ring, sends,
             dels, delRes, epc, eid, patch, snap, estatus, listReq, listRes>>

\* ---------------------------------------------------------------- strings
RECURSIVE ByteLen(_)
ByteLen(s) ==
  IF s = <<>> THEN 0
  ELSE (IF Head(s) \in TwoByteChars THEN 2 ELSE 1) + ByteLen(Tail(s))

\* &s[0..n] is defined when byte n is a character boundary inside s; the
\* slice panics otherwise
SliceOk(s, n) == \E k \in 0..Len(s) : ByteLen(SubSeq(s, 1, k)) = n

Slice(s, n) ==
  LET k == CHOOSE j \in 0..Len(s) : ByteLen(SubSeq(s, 1, j)) = n
  IN  SubSeq(s, 1, k)

\* format!("{}{}", &body.user_name[0..3], &ref_id[0..4])
GenCode(name, refId) == Slice(name, 3) \o SubSeq(refId, 1, 4)

\* ---------------------------------------------------------------- store
NoErr == [msg |-> "", on |-> ""]
DupMsg == "duplicate key value violates unique constraint"
OtherErr == [msg |-> "connection closed", on |-> ""]

\* SELECT * FROM users WHERE ref_code = $1
RowsByCode(db, x) == { db[i] : i \in { j \in DOMAIN db : db[j].ref_code = x } }

\* mutant: the WHERE clause is lost and every row is credited
CreditStmtNoWhere(db, ref) ==
  [i \in DOMAIN db |-> [db[i] EXCEPT !.added_by_ref_code = @ + 1]]

\* mutant: read-modify-write in the caller, from the row the lookup returned
CreditStmtReadModifyWrite(db, ref) ==
  IF ref.id \in DOMAIN db
  THEN [db EXCEPT ![ref.id].added_by_ref_code = ref.added_by_ref_code + 1]
  ELSE db

\* UPDATE users SET added_by_ref_code = added_by_ref_code + 1 WHERE id = $1
\* one statement, evaluated by the store against the row's current value;
\* ref is the row the lookup returned
CreditStmt(db, ref) ==
  IF ref.id \in DOMAIN db
  THEN [db EXCEPT ![ref.id].added_by_ref_code = @ + 1]
  ELSE db

\* the unique constraints of the users table that a new row would violate
Violated(db, new) ==
  { c \in {"email", "user_name", "ref_code"} : \E i \in DOMAIN db : db[i][c] = new[c] }

\* errors the INSERT may come back with; fault: the store fails for a reason
\* that is no uniqueness violation
InsertErrs(db, new, fault) ==
  IF fault THEN {OtherErr}
  ELSE IF Violated(db, new) # {}
       THEN { [msg |-> DupMsg, on |-> c] : c \in Violated(db, new) }
       ELSE {NoErr}

\* INSERT INTO users (email, user_name, ref_code, added_by_ref_code) ... RETURNING *
InsertStmt(db, new) ==
  [i \in DOMAIN db \cup {new.id} |-> IF i = new.id THEN new ELSE db[i]]

\* mutant: the WHERE clause is lost and every row is deleted
DeleteStmtAll(db, id) == [i \in {} |-> db[i]]

\* DELETE FROM users WHERE id = $1
DeleteStmt(db, id) == [i \in DOMAIN db \ {id} |-> db[i]]

\* ---------------------------------------------------------------- hub
Connected == [status |-> "success", event_data |-> {}]
EventOf(u) == [status |-> "success", event_data |-> {u}]

\* receivers alive on the channel: one per live connection
Receivers == { s \in Subs : rxpc[s] \in {"subscribed", "streaming"} }

\* ---------------------------------------------------------------- Init
NoBody == [user_name |-> <<>>, email |-> "", ref_code |-> {}]

\* no DELETE, PATCH or list request has been served yet
NoDelete == [id |-> 0, status |-> "none"]
NoPatch == [email |-> {}, user_name |-> {}]
NoFilter == [page |-> {}, limit |-> {}]
NoList == [status |-> "none", results |-> 0, users |-> <<>>, offset |-> 0]

\* no request is in flight and no connection is open
Idle ==
  /\ calls = 0
  /\ pc = [r \in Reqs |-> "idle"]
  /\ body = [r \in Reqs |-> NoBody]
  /\ user = [r \in Reqs |-> {}]
  /\ row = [r \in Reqs |-> {}]
  /\ status = [r \in Reqs |-> "none"]
  /\ dberr = [r \in Reqs |-> NoErr]
  /\ delta = [r \in Reqs |-> 0]
  /\ sent = <<>>
  /\ rxpc = [s \in Subs |-> "none"]
  /\ next = [s \in Subs |-> 0]
  /\ start = [s \in Subs |-> 0]
  /\ early = [s \in Subs |-> FALSE]
  /\ out = [s \in Subs |-> <<>>]
  /\ ring = <<>>
  /\ sends = 0
  /\ dels = 0
  /\ delRes = NoDelete
  /\ epc = [e \in Eds |-> "idle"]
  /\ eid = [e \in Eds |-> 0]
  /\ patch = [e \in Eds |-> NoPatch]
  /\ snap = [e \in Eds |-> {}]
  /\ estatus = [e \in Eds |-> "none"]
  /\ listReq = NoFilter
  /\ listRes = NoList

\* a fresh deployment: the users table is empty
Init ==
  /\ users = <<>>
  /\ nextId = 1
  /\ credited = <<>>
  /\ Idle

\* ---------------------------------------------------------------- create_user_handler
\* the handler returns, or its task unwinds: the locals are dropped and st is
\* what the client sees ("panic": the connection closes without a response)
Return(r, st) ==
  /\ pc' = [pc EXCEPT ![r] = "done"]
  /\ status' = [status EXCEPT ![r] = st]
  /\ body' = [body EXCEPT ![r] = NoBody]
  /\ user' = [user EXCEPT ![r] = {}]
  /\ row' = [row EXCEPT ![r] = {}]
  /\ delta' = [delta EXCEPT ![r] = 0]

\* referral codes a client may cite: none, a code some user holds, or a
\* code nobody holds
RefInputs ==
  {{}} \cup { {c} : c \in {users[i].ref_code : i \in DOMAIN users} \cup {UnknownCode} }

\* POST /api/users arrives with a parsed body whose ref_code is among refs
BeginWith(r, refs) ==
  /\ pc[r] \in {"idle", "done"}
  /\ calls < MaxCalls
  /\ calls' = calls + 1
  /\ \E n \in Names, e \in Emails, rc \in refs :
        /\ body' = [body EXCEPT ![r] = [user_name |-> n, email |-> e, ref_code |-> rc]]
        /\ pc' = [pc EXCEPT ![r] = IF rc # {} THEN "lookup" ELSE "insert"]
  /\ status' = [status EXCEPT ![r] = "none"]
  /\ dberr' = [dberr EXCEPT ![r] = NoErr]
  /\ UNCHANGED <<user, row, delta, dbVars, hubVars>>
  /\ UNCHANGED <<pubVars, extVars>>

Begin(r) == BeginWith(r, RefInputs)

\* a registration that cites no referral code
BeginPlain(r) == BeginWith(r, {{}})

\* where the match on the lookup's result goes: Err(_) returns 404
LookupNext(rows) == IF rows = {} THEN "404" ELSE "credit"

\* mutant: a failed lookup is swallowed and the registration goes on
LookupSwallow(r) ==
  /\ pc[r] = "lookup"
  /\ LET rows == UNION { RowsByCode(users, x) : x \in body[r].ref_code }
     IN  IF rows = {}
         THEN /\ pc' = [pc EXCEPT ![r] = "insert"]
              /\ UNCHANGED user
         ELSE /\ \E u \in rows : user' = [user EXCEPT ![r] = {u}]
              /\ pc' = [pc EXCEPT ![r] = "credit"]
  /\ UNCHANGED <<body, row, status, delta, calls, dberr, dbVars, hubVars>>
  /\ UNCHANGED <<pubVars, extVars>>

\* SELECT ... WHERE ref_code = $1, fetch_one
Lookup(r) ==
  /\ pc[r] = "lookup"
  /\ LET rows == UNION { RowsByCode(users, x) : x \in body[r].ref_code }
     IN  IF LookupNext(rows) = "404"
         THEN Return(r, "404")
         ELSE /\ \E u \in rows : user' = [user EXCEPT ![r] = {u}]
              /\ pc' = [pc EXCEPT ![r] = "credit"]
              /\ UNCHANGED <<body, row, status, delta>>
  /\ UNCHANGED <<calls, dberr, dbVars, hubVars>>
  /\ UNCHANGED <<pubVars, extVars>>

\* mutant: the UPDATE's result is matched, and no row found ends the request
CreditAbort(r) ==
  /\ pc[r] = "credit"
  /\ \E ref \in user[r] :
        /\ users' = CreditStmt(users, ref)
        /\ credited' = IF ref.id \in DOMAIN users
                       THEN [credited EXCEPT ![ref.id] = @ + 1] ELSE credited
        /\ IF ref.id \in DOMAIN users
           THEN /\ delta' = [delta EXCEPT ![r] = 1]
                /\ pc' = [pc EXCEPT ![r] = "insert"]
                /\ UNCHANGED <<body, user, row, status>>
           ELSE Return(r, "500")
  /\ UNCHANGED <<calls, dberr, nextId, hubVars>>
  /\ UNCHANGED <<pubVars, extVars>>

\* the UPDATE of the referrer's counter; its result is discarded (let _ =)
Credit(r) ==
  /\ pc[r] = "credit"
  /\ \E ref \in user[r] :
        /\ users' = CreditStmt(users, ref)
        /\ credited' = IF ref.id \in DOMAIN users
                       THEN [credited EXCEPT ![ref.id] = @ + 1] ELSE credited
        /\ delta' = [delta EXCEPT ![r] = IF ref.id \in DOMAIN users THEN 1 ELSE 0]
  /\ pc' = [pc EXCEPT ![r] = "insert"]
  /\ UNCHANGED <<calls, body, user, row, status, dberr, nextId, hubVars>>
  /\ UNCHANGED <<pubVars, extVars>>

\* mutant: every INSERT error is answered 500
ErrStatusAlways500(e) == "500"

\* mutant: only a violation of the email constraint is answered 409
ErrStatusEmailOnly(e) == IF e.msg = DupMsg /\ e.on = "email" THEN "409" ELSE "500"

\* status of the Err arm of the match on the INSERT's result:
\* e.to_string().contains("duplicate key value violates unique constraint")
ErrStatus(e) == IF e.msg = DupMsg THEN "409" ELSE "500"

\* mutant: the credit is undone when the registration fails after it
InsertRollback(r) ==
  LET Uncredit ==
        [i \in DOMAIN users |->
           IF delta[r] = 1 /\ \E u \in user[r] : u.id = i
           THEN [users[i] EXCEPT !.added_by_ref_code = @ - 1] ELSE users[i]]
  IN
  /\ pc[r] = "insert"
  /\ nextId <= MaxUsers
  /\ IF ~SliceOk(body[r].user_name, 3)
     THEN /\ Return(r, "panic")
          /\ users' = Uncredit
          /\ UNCHANGED <<dberr, credited, nextId>>
     ELSE \E refId \in Suffixes, fault \in BOOLEAN :
            LET new == [id |-> nextId, email |-> body[r].email,
                        user_name |-> body[r].user_name,
                        ref_code |-> GenCode(body[r].user_name, refId),
                        added_by_ref_code |-> 0]
            IN  \E e \in InsertErrs(users, new, fault) :
                  /\ dberr' = [dberr EXCEPT ![r] = e]
                  /\ IF e = NoErr
                     THEN /\ users' = InsertStmt(users, new)
                          /\ credited' = [i \in DOMAIN credited \cup {new.id} |->
                                            IF i = new.id THEN 0 ELSE credited[i]]
                          /\ nextId' = nextId + 1
                          /\ row' = [row EXCEPT ![r] = {new}]
                          /\ pc' = [pc EXCEPT ![r] = "publish"]
                          /\ UNCHANGED <<status, body, user, delta>>
                     ELSE /\ Return(r, ErrStatus(e))
                          /\ users' = Uncredit
                          /\ UNCHANGED <<credited, nextId>>
  /\ UNCHANGED <<calls, hubVars>>
  /\ UNCHANGED <<pubVars, extVars>>

\* the new code is generated (the slice of the name may panic), the INSERT
\* runs, and an error is mapped to its status
Insert(r) ==
  /\ pc[r] = "insert"
  /\ nextId <= MaxUsers
  /\ IF ~SliceOk(body[r].user_name, 3)
     THEN /\ Return(r, "panic")
          /\ UNCHANGED <<dberr, users, credited, nextId>>
     ELSE \E refId \in Suffixes, fault \in BOOLEAN :
            LET new == [id |-> nextId, email |-> body[r].email,
                        user_name |-> body[r].user_name,
                        ref_code |-> GenCode(body[r].user_name, refId),
                        added_by_ref_code |-> 0]
            IN  \E e \in InsertErrs(users, new, fault) :
                  /\ dberr' = [dberr EXCEPT ![r] = e]
                  /\ IF e = NoErr
                     THEN /\ users' = InsertStmt(users, new)
                          /\ credited' = [i \in DOMAIN credited \cup {new.id} |->
                                            IF i = new.id THEN 0 ELSE credited[i]]
                          /\ nextId' = nextId + 1
                          /\ row' = [row EXCEPT ![r] = {new}]
                          /\ pc' = [pc EXCEPT ![r] = "publish"]
                          /\ UNCHANGED <<status, body, user, delta>>
                     ELSE /\ Return(r, ErrStatus(e))
                          /\ UNCHANGED <<users, credited, nextId>>
  /\ UNCHANGED <<calls, hubVars>>
  /\ UNCHANGED <<pubVars, extVars>>

\* Sender::send fails when no receiver is alive
SendOk(rxs) == rxs # {}

\* mutant: the channel keeps every value until all receivers have read it
RingPushUnbounded(rg, e) == Append(rg, e)

\* Sender::send stores the value in the channel's next slot; once Capacity
\* values are retained the oldest is overwritten, whoever has yet to read it
RingPush(rg, e) ==
  LET a == Append(rg, e) IN IF Len(a) > Capacity THEN Tail(a) ELSE a

\* mutant: the event is sent a second time
PublishTwice(r) ==
  /\ pc[r] = "publish"
  /\ sends' = sends + 2
  /\ IF SendOk(Receivers)
     THEN /\ \E u \in row[r] :
               /\ sent' = Append(Append(sent, EventOf(u)), EventOf(u))
               /\ ring' = RingPush(RingPush(ring, EventOf(u)), EventOf(u))
          /\ Return(r, "201")
     ELSE /\ Return(r, "panic")
          /\ UNCHANGED <<sent, ring>>
  /\ UNCHANGED <<calls, dberr, dbVars, rxpc, next, start, early, out>>
  /\ UNCHANGED extVars

\* the Ok arm: data.tx.send(event).unwrap(), then 201 with the new row
Publish(r) ==
  /\ pc[r] = "publish"
  /\ sends' = sends + 1
  /\ IF SendOk(Receivers)
     THEN /\ \E u \in row[r] : /\ sent' = Append(sent, EventOf(u))
                                /\ ring' = RingPush(ring, EventOf(u))
          /\ Return(r, "201")
     ELSE /\ Return(r, "panic")
          /\ UNCHANGED <<sent, ring>>
  /\ UNCHANGED <<calls, dberr, dbVars, rxpc, next, start, early, out>>
  /\ UNCHANGED extVars

\* ---------------------------------------------------------------- delete_user_handler
\* DELETE /api/user/:id for an id some row holds (for any other id the
\* statement affects no row and the handler answers 404)
Delete(id) ==
  /\ id \in DOMAIN users
  /\ users' = DeleteStmt(users, id)
  /\ credited' = [i \in DOMAIN credited \ {id} |-> credited[i]]
  /\ UNCHANGED <<nextId, reqVars, hubVars>>
  /\ UNCHANGED <<pubVars, extVars>>

\* ---------------------------------------------------------------- sse_handler
\* mutant: a new receiver replays the channel from its beginning
ConnectReplay(s) ==
  /\ rxpc[s] = "none"
  /\ rxpc' = [rxpc EXCEPT ![s] = "subscribed"]
  /\ next' = [next EXCEPT ![s] = 0]
  /\ start' = [start EXCEPT ![s] = Len(sent)]
  /\ UNCHANGED <<sent, early, out, reqVars, dbVars>>
  /\ UNCHANGED <<pubVars, extVars>>

\* app.tx.subscribe(): the receiver starts at the channel's tail
Connect(s) ==
  /\ rxpc[s] = "none"
  /\ rxpc' = [rxpc EXCEPT ![s] = "subscribed"]
  /\ next' = [next EXCEPT ![s] = Len(sent)]
  /\ start' = [start EXCEPT ![s] = Len(sent)]
  /\ UNCHANGED <<sent, early, out, reqVars, dbVars>>
  /\ UNCHANGED <<pubVars, extVars>>

\* stream::once: the first poll of res.chain(stream) yields the initial message
SendInitial(s) ==
  /\ rxpc[s] = "subscribed"
  /\ out' = [out EXCEPT ![s] = Append(@, Connected)]
  /\ early' = [early EXCEPT ![s] = next[s] < Len(sent)]
  /\ rxpc' = [rxpc EXCEPT ![s] = "streaming"]
  /\ UNCHANGED <<sent, next, start, reqVars, dbVars>>
  /\ UNCHANGED <<pubVars, extVars>>

\* the connection's stream and its receiver are dropped; what the client has
\* received stays with the client
Drop(s, how) ==
  /\ rxpc' = [rxpc EXCEPT ![s] = how]
  /\ next' = [next EXCEPT ![s] = 0]
  /\ start' = [start EXCEPT ![s] = 0]
  /\ early' = [early EXCEPT ![s] = FALSE]
  /\ UNCHANGED out

\* mutant: the two streams are chained the other way round
CanForwardBeforeInitial(s) == rxpc[s] \in {"subscribed", "streaming"}

\* res.chain(stream): the broadcast stream is polled once the first is drained
CanForward(s) == rxpc[s] = "streaming"

\* Receiver::recv on a channel that retains the last Capacity values
RecvLagged(nxt, tail) == tail - nxt > Capacity
RecvIndex(nxt, tail) == nxt + 1
\* the value in the slot of position k, of tail positions written so far
RingAt(rg, tail, k) == rg[k - (tail - Len(rg))]

\* the broadcast stream yields its next item and the map closure unwraps it:
\* Err(Lagged(_)) panics the connection's task, which drops the receiver
Forward(s) ==
  /\ CanForward(s)
  /\ next[s] < Len(sent)
  /\ IF RecvLagged(next[s], Len(sent))
     THEN Drop(s, "panicked")
     ELSE /\ out' = [out EXCEPT ![s] = Append(@, RingAt(ring, Len(sent), RecvIndex(next[s], Len(sent))))]
          /\ next' = [next EXCEPT ![s] = RecvIndex(next[s], Len(sent))]
          /\ UNCHANGED <<rxpc, start, early>>
  /\ UNCHANGED <<sent, reqVars, dbVars>>
  /\ UNCHANGED <<pubVars, extVars>>

\* the client goes away: the stream and its receiver are dropped
Disconnect(s) ==
  /\ rxpc[s] \in {"subscribed", "streaming"}
  /\ Drop(s, "closed")
  /\ UNCHANGED <<sent, reqVars, dbVars>>
  /\ UNCHANGED <<pubVars, extVars>>

\* ---------------------------------------------------------------- delete_user_handler
\* .rows_affected() of the DELETE
RowsAffected(db, id) == Cardinality(DOMAIN db \ DOMAIN DeleteStmt(db, id))

\* ids a client may name in a path: those of the rows ever inserted and one
\* that no row ever held
PathIds == 1..(MaxUsers + 1)

\* DELETE /api/user/:id with the response the client sees: 404 when the
\* statement affected no row, 204 otherwise
DeleteUser(id) ==
  /\ dels < MaxDels
  /\ dels' = dels + 1
  /\ users' = DeleteStmt(users, id)
  /\ credited' = [i \in DOMAIN credited \cap DOMAIN users' |-> credited[i]]
  /\ delRes' = [id |-> id,
                status |-> IF RowsAffected(users, id) = 0 THEN "404" ELSE "204"]
  /\ UNCHANGED <<nextId, reqVars, hubVars, pubVars, listVars>>
  /\ UNCHANGED <<epc, eid, patch, snap, estatus>>

\* ---------------------------------------------------------------- edit_user_handler
PatchEmails == {"b@x.com", "c@x.com"}
PatchNames == { <<"b","o","b">> }

\* UpdateUserSchema: each field is optional
Patches == [email : {{}} \cup {{x} : x \in PatchEmails},
            user_name : {{}} \cup {{n} : n \in PatchNames}]

\* body.email.to_owned().unwrap_or(user.email), and the same for user_name:
\* the row the UPDATE writes, from the row the handler read
Merge(u, b) ==
  [u EXCEPT !.email = IF b.email = {} THEN u.email ELSE CHOOSE x \in b.email : TRUE,
            !.user_name = IF b.user_name = {} THEN u.user_name
                          ELSE CHOOSE n \in b.user_name : TRUE]

\* UPDATE users SET email = $1, user_name = $2, updated_at = $3 WHERE id = $4
\* RETURNING *, fetched with fetch_one: an error when no row has the id or a
\* unique constraint is violated
UpdateOk(db, id, new) ==
  /\ id \in DOMAIN db
  /\ Violated(DeleteStmt(db, id), [db[id] EXCEPT !.email = new.email,
                                                 !.user_name = new.user_name]) = {}

UpdateStmt(db, id, new) ==
  [db EXCEPT ![id].email = new.email, ![id].user_name = new.user_name]

\* PATCH /api/user/:id, first round trip: SELECT * FROM users WHERE id = $1
EditRead(e) ==
  /\ epc[e] = "idle"
  /\ \E id \in PathIds, b \in Patches :
       /\ eid' = [eid EXCEPT ![e] = id]
       /\ patch' = [patch EXCEPT ![e] = b]
       /\ IF id \in DOMAIN users
          THEN /\ snap' = [snap EXCEPT ![e] = {users[id]}]
               /\ epc' = [epc EXCEPT ![e] = "update"]
               /\ UNCHANGED estatus
          ELSE /\ estatus' = [estatus EXCEPT ![e] = "404"]
               /\ epc' = [epc EXCEPT ![e] = "done"]
               /\ UNCHANGED snap
  /\ UNCHANGED <<dbVars, reqVars, hubVars, pubVars, listVars, dels, delRes>>

\* second round trip: the UPDATE of both columns, merged from the row read
EditWrite(e) ==
  /\ epc[e] = "update"
  /\ \E u \in snap[e] :
       IF UpdateOk(users, eid[e], Merge(u, patch[e]))
       THEN /\ users' = UpdateStmt(users, eid[e], Merge(u, patch[e]))
            /\ estatus' = [estatus EXCEPT ![e] = "200"]
       ELSE /\ estatus' = [estatus EXCEPT ![e] = "500"]
            /\ UNCHANGED users
  /\ epc' = [epc EXCEPT ![e] = "done"]
  /\ snap' = [snap EXCEPT ![e] = {}]
  /\ UNCHANGED <<nextId, credited, eid, patch>>
  /\ UNCHANGED <<reqVars, hubVars, pubVars, listVars, dels, delRes>>

\* ---------------------------------------------------------------- users_list_handler
\* A usize is UsizeBytes bytes wide (64-bit target) and an i32 I32Bytes; an
\* unsigned integer is written as its bytes, least significant first.
UsizeBytes == 8
I32Bytes == 4
Radix == 256

\* opts.limit.unwrap_or(10), opts.page.unwrap_or(1)
DefaultLimit == 10
DefaultPage == 1

RECURSIVE ToLimbs(_, _)
ToLimbs(n, k) == IF k = 0 THEN <<>> ELSE <<n % Radix>> \o ToLimbs(n \div Radix, k - 1)

Usize(n) == ToLimbs(n, UsizeBytes)

IsZero(a) == \A i \in DOMAIN a : a[i] = 0

\* a - 1 modulo Radix^Len(a): 0 - 1 wraps to the largest value
RECURSIVE DecLimbs(_)
DecLimbs(a) ==
  IF a = <<>> THEN <<>>
  ELSE IF a[1] > 0 THEN <<a[1] - 1>> \o Tail(a)
       ELSE <<Radix - 1>> \o DecLimbs(Tail(a))

\* column k of the schoolbook product of a and b
RECURSIVE ColSum(_, _, _, _)
ColSum(a, b, k, i) ==
  IF i > Len(a) THEN 0
  ELSE (IF k + 1 - i \in 1..Len(b) THEN a[i] * b[k + 1 - i] ELSE 0)
       + ColSum(a, b, k, i + 1)

RECURSIVE MulCarry(_, _, _, _)
MulCarry(a, b, k, carry) ==
  IF k > Len(a) + Len(b) THEN <<>>
  ELSE LET t == ColSum(a, b, k, 1) + carry
       IN  <<t % Radix>> \o MulCarry(a, b, k + 1, t \div Radix)

\* the exact product a * b, Len(a) + Len(b) bytes wide
MulFull(a, b) == MulCarry(a, b, 1, 0)

\* the product as the machine keeps it, and whether it fits
WrapMul(a, b) == SubSeq(MulFull(a, b), 1, UsizeBytes)
MulOverflows(a, b) == ~IsZero(SubSeq(MulFull(a, b), UsizeBytes + 1, 2 * UsizeBytes))

\* two's complement value of a byte string
RECURSIVE Signed(_)
Signed(b) ==
  IF Len(b) = 1 THEN (IF b[1] >= Radix \div 2 THEN b[1] - Radix ELSE b[1])
  ELSE b[1] + Radix * Signed(Tail(b))

\* x as i32: the low I32Bytes bytes, read as a signed integer
AsI32(a) == Signed(SubSeq(a, 1, I32Bytes))

\* values of the query string the parser accepts for a usize: small ones and
\* 2^31, 2^32 + 1 and usize::MAX
TwoPow31 == [i \in 1..UsizeBytes |-> IF i = I32Bytes THEN Radix \div 2 ELSE 0]
TwoPow32Plus1 == [i \in 1..UsizeBytes |-> IF i \in {1, I32Bytes + 1} THEN 1 ELSE 0]
UsizeMax == [i \in 1..UsizeBytes |-> Radix - 1]

\* FilterOptions: each field is optional
PageInputs == {{}} \cup {{Usize(n)} : n \in 0..MaxPage} \cup {{TwoPow32Plus1}}
LimitInputs ==
  {{}} \cup {{Usize(n)} : n \in 0..MaxLimit} \cup {{TwoPow31}, {TwoPow32Plus1}, {UsizeMax}}

PageOf(o) == IF o.page = {} THEN Usize(DefaultPage) ELSE CHOOSE x \in o.page : TRUE
LimitOf(o) == IF o.limit = {} THEN Usize(DefaultLimit) ELSE CHOOSE x \in o.limit : TRUE

\* ORDER by id
RECURSIVE SortedIds(_)
SortedIds(S) ==
  IF S = {} THEN <<>>
  ELSE LET m == CHOOSE x \in S : \A y \in S : x <= y
       IN  <<m>> \o SortedIds(S \ {m})

\* SELECT * FROM users ORDER by id LIMIT lim OFFSET off, for lim, off >= 0
SelectPage(db, lim, off) ==
  LET ids == SortedIds(DOMAIN db)
      last == IF off + lim < Len(ids) THEN off + lim ELSE Len(ids)
  IN  [k \in 1..(IF last > off THEN last - off ELSE 0) |-> db[ids[off + k]]]

\* the handler's response; checked: the build traps integer overflow (panic)
\* rather than wrapping.  The store rejects a negative LIMIT or OFFSET.
ListResponse(db, o, checked) ==
  LET page == PageOf(o)
      limit == LimitOf(o)
      offset == WrapMul(DecLimbs(page), limit)
  IN  IF checked /\ (IsZero(page) \/ MulOverflows(DecLimbs(page), limit))
      THEN [status |-> "panic", results |-> 0, users |-> <<>>, offset |-> 0]
      ELSE IF AsI32(limit) < 0 \/ AsI32(offset) < 0
           THEN [status |-> "500", results |-> 0, users |-> <<>>,
                 offset |-> AsI32(offset)]
           ELSE LET rows == SelectPage(db, AsI32(limit), AsI32(offset))
                IN  [status |-> "200", results |-> Len(rows), users |-> rows,
                     offset |-> AsI32(offset)]

\* GET /api/users?page=..&limit=..; the handler keeps nothing from one
\* request to the next, so one request per table is followed
ListUsers ==
  /\ listRes = NoList
  /\ \E p \in PageInputs, l \in LimitInputs, checked \in BOOLEAN :
       /\ listReq' = [page |-> p, limit |-> l]
       /\ listRes' = ListResponse(users, listReq', checked)
  /\ UNCHANGED <<dbVars, reqVars, hubVars, pubVars, crudVars>>

\* ---------------------------------------------------------------- specification
Next ==
  \/ \E r \in Reqs : Begin(r)
  \/ \E r \in Reqs : Lookup(r)
  \/ \E r \in Reqs : Credit(r)
  \/ \E r \in Reqs : Insert(r)
  \/ \E r \in Reqs : Publish(r)
  \/ \E id \in 1..MaxUsers : Delete(id)
  \/ \E s \in Subs : Connect(s)
  \/ \E s \in Subs : SendInitial(s)
  \/ \E s \in Subs : Forward(s)
  \/ \E s \in Subs : Disconnect(s)
  \/ \E id \in PathIds : DeleteUser(id)
  \/ \E e \in Eds : EditRead(e)
  \/ \E e \in Eds : EditWrite(e)
  \/ ListUsers

Spec == Init /\ [][Next]_vars

\* the registration pipeline and the store, with one live connection that
\* comes and goes
NextStore ==
  \/ \E r \in Reqs : Begin(r)
  \/ \E r \in Reqs : Lookup(r)
  \/ \E r \in Reqs : Credit(r)
  \/ \E r \in Reqs : Insert(r)
  \/ \E r \in Reqs : Publish(r)
  \/ \E id \in 1..MaxUsers : Delete(id)
  \/ Connect(1)
  \/ Disconnect(1)

SpecStore == Init /\ [][NextStore]_vars

\* registrations that cite no referral code, and the hub with every live
\* connection; no row is deleted
NextHub ==
  \/ \E r \in Reqs : BeginPlain(r)
  \/ \E r \in Reqs : Insert(r)
  \/ \E r \in Reqs : Publish(r)
  \/ \E s \in Subs : Connect(s)
  \/ \E s \in Subs : SendInitial(s)
  \/ \E s \in Subs : Forward(s)
  \/ \E s \in Subs : Disconnect(s)

SpecHub == Init /\ [][NextHub]_vars

\* a deployment that holds two users, registered earlier without a referral
SeedUsers ==
  [i \in 1..2 |->
     IF i = 1
     THEN [id |-> 1, email |-> "a@x.com", user_name |-> <<"a","n","n">>,
           ref_code |-> GenCode(<<"a","n","n">>, <<"1","f","2","a">>),
           added_by_ref_code |-> 0]
     ELSE [id |-> 2, email |-> "b@x.com", user_name |-> <<"a","n","n","a">>,
           ref_code |-> GenCode(<<"a","n","n","a">>, <<"0","0","0","0">>),
           added_by_ref_code |-> 0]]

InitCrud ==
  /\ users = SeedUsers
  /\ nextId = Len(SeedUsers) + 1
  /\ credited = [i \in DOMAIN SeedUsers |-> 0]
  /\ Idle

\* PATCH and DELETE requests against the seeded table
NextCrud ==
  \/ \E e \in Eds : EditRead(e)
  \/ \E e \in Eds : EditWrite(e)
  \/ \E id \in PathIds : DeleteUser(id)

SpecCrud == InitCrud /\ [][NextCrud]_vars

\* a user as an earlier registration left it
ListRow(i) ==
  [id |-> i, email |-> <<"u", i>>, user_name |-> <<"u", "s", "r", i>>,
   ref_code |-> <<"u", "s", "r", i>>, added_by_ref_code |-> 0]

\* tables of up to MaxRows users, with or without a deleted row
ListTables ==
  { [i \in (1..n) \ {h} |-> ListRow(i)] : n \in 0..MaxRows, h \in 0..MaxRows }

InitList ==
  /\ users \in ListTables
  /\ nextId = MaxRows + 1
  /\ credited = [i \in DOMAIN users |-> 0]
  /\ Idle

\* list requests against a table that does not change
NextList == ListUsers

SpecList == InitList /\ [][NextList]_vars

\* ================================================================ claims
\* a step of request r (every step of a request moves its pc)
StepOf(r) == pc'[r] # pc[r]

\* the referral code of r's body is held by no user
CitesUnknown(r) == \A x \in body[r].ref_code : RowsByCode(users, x) = {}

\* ---------------------------------------------------------------- C1
\* C1 as stated: every registration that succeeds (201) after resolving its
\* referral code to a user has raised that user's counter by exactly 1.
C1_EverySuccessCredits ==
  [][\A r \in Reqs :
       (pc[r] = "publish" /\ status'[r] = "201" /\ user[r] # {}) => delta[r] = 1]_vars

\* C1 (amended): the credit step of a registration that resolved its referral
\* code to R raises R's counter by exactly 1 when R's row still exists and
\* changes nothing when R was deleted after the lookup; and no step of a
\* registration changes the counter of any other user.
C1_CreditExactlyOne ==
  [][\A r \in Reqs : StepOf(r) =>
       IF pc[r] = "credit"
       THEN \E ref \in user[r] :
              /\ DOMAIN users' = DOMAIN users
              /\ ref.id \in DOMAIN users =>
                   users'[ref.id].added_by_ref_code = users[ref.id].added_by_ref_code + 1
              /\ \A i \in DOMAIN users \ {ref.id} : users'[i] = users[i]
       ELSE \A i \in DOMAIN users :
              i \in DOMAIN users' /\ users'[i] = users[i]]_vars

\* a credit has raised the counter of one of two users
C1_Witness ==
  \E r \in Reqs : \E ref \in user[r] :
    /\ pc[r] = "insert" /\ delta[r] = 1
    /\ Cardinality(DOMAIN users) = 2
    /\ ref.id \in DOMAIN users
    /\ users[ref.id].added_by_ref_code = ref.added_by_ref_code + 1

\* ---------------------------------------------------------------- C2
\* C2: a registration citing a referral code that no user holds ends with 404
\* at the lookup; no row is inserted, no counter changes, nothing is published.
C2_UnknownCodeAborts ==
  [][\A r \in Reqs :
       (pc[r] = "lookup" /\ StepOf(r) /\ CitesUnknown(r)) =>
          /\ pc'[r] = "done" /\ status'[r] = "404"
          /\ users' = users
          /\ sent' = sent]_vars

C2_Witness ==
  \E r \in Reqs : pc[r] = "done" /\ status[r] = "404" /\ users # <<>>

\* ---------------------------------------------------------------- C3
\* C3: whenever the insert of the new user succeeded, the registration answers
\* 201 with the created user, whatever the number of live connections.
C3_PublishNeverFails ==
  [][\A r \in Reqs : (pc[r] = "publish" /\ StepOf(r)) => status'[r] = "201"]_vars

\* ---------------------------------------------------------------- C4
\* what a live connection has streamed so far, given where its receiver
\* started and where it stands
Streamed(s) == <<Connected>> \o SubSeq(sent, start[s] + 1, next[s])

C5_LaggedStaysOpen == \A s \in Subs : rxpc[s] # "panicked"

\* ---------------------------------------------------------------- C6
\* C6: no credit is lost: every user's counter equals the number of credit
\* statements the store executed against the user's row, in every
\* interleaving of the registrations' round trips.
C6_NoLostCredit ==
  \A i \in DOMAIN users : users[i].added_by_ref_code = credited[i]

\* two registrations looked the same referrer up before either credited it,
\* and both credits are in the counter
C6_Witness ==
  \E r, q \in Reqs : \E u \in user[r], w \in user[q] :
    /\ r # q /\ u = w /\ u.added_by_ref_code = 0
    /\ pc[r] = "insert" /\ pc[q] = "insert"
    /\ u.id \in DOMAIN users /\ users[u.id].added_by_ref_code = 2

\* ---------------------------------------------------------------- C7
\* the email or the user name of r's body is held by an existing user
HeldByExisting(r) ==
  \E i \in DOMAIN users :
     users[i].email = body[r].email \/ users[i].user_name = body[r].user_name

C8_ShortNameIsValidationError ==
  [][\A r \in Reqs :
       (pc[r] = "insert" /\ StepOf(r) /\ Len(body[r].user_name) < 3) =>
          status'[r] = "ValidationError"]_vars

\* ---------------------------------------------------------------- C9
\* C9: the first message on a live connection is the empty "connected"
\* message, it is sent once, and every event comes after it.
C9_ConnectedFirst ==
  \A s \in Subs :
    out[s] # <<>> =>
      /\ out[s][1] = Connected
      /\ \A k \in 2..Len(out[s]) : out[s][k] # Connected

\* an event published between subscribe and the initial message was forwarded
\* after the initial message
C9_Witness ==
  \E s \in Subs :
    /\ rxpc[s] = "streaming" /\ early[s]
    /\ Len(out[s]) >= 2 /\ out[s][2] = sent[start[s] + 1]

\* ---------------------------------------------------------------- C10
\* C10: no two users hold the same referral code; an insert the store rejects
\* for the code's uniqueness is answered 409 by the insert step, ends the
\* registration (no retry) and creates no row.
C10_CodesUnique ==
  /\ [](\A i, j \in DOMAIN users : i # j => users[i].ref_code # users[j].ref_code)
  /\ [][\A r \in Reqs :
          (pc[r] = "insert" /\ StepOf(r) /\ dberr'[r] = [msg |-> DupMsg, on |-> "ref_code"]) =>
             /\ pc'[r] = "done" /\ status'[r] = "409"
             /\ users' = users /\ nextId' = nextId]_vars

C10_Witness ==
  \E r \in Reqs :
    /\ pc[r] = "done" /\ status[r] = "409" /\ dberr[r].on = "ref_code"

\* ---------------------------------------------------------------- C11
\* the events a live receiver has yet to read and the channel still retains
Unread(s) ==
  LET behind == Len(sent) - next[s]
      kept == IF behind < Len(ring) THEN behind ELSE Len(ring)
  IN  IF s \in Receivers THEN SubSeq(ring, Len(ring) - kept + 1, Len(ring)) ELSE <<>>

C12_DeleteExactlyOne ==
  /\ [](delRes.status = "204" => delRes.id \notin DOMAIN users)
  /\ [][dels' = dels + 1 =>
          /\ delRes'.id \notin DOMAIN users =>
                (delRes'.status = "404" /\ users' = users)
          /\ delRes'.id \in DOMAIN users =>
                /\ delRes'.status = "204"
                /\ DOMAIN users' = DOMAIN users \ {delRes'.id}
                /\ \A i \in DOMAIN users' : users'[i] = users[i]
          /\ (delRes.status \in {"204", "404"} /\ delRes'.id = delRes.id) =>
                delRes'.status = "404"]_vars

\* a row was deleted, the DELETE was repeated and answered 404, and the other
\* row is still there
C12_Witness ==
  /\ dels >= 2 /\ delRes.status = "404"
  /\ delRes.id \in DOMAIN SeedUsers /\ delRes.id \notin DOMAIN users
  /\ \E i \in DOMAIN users : users[i] = SeedUsers[i]

\* ---------------------------------------------------------------- C13
\* C13: when a registration that has credited its referrer fails afterwards
\* (the slice of the name panics, or the INSERT comes back with an error and
\* the client gets 409 or 500), that step changes no row: the referrer, if it
\* still exists, keeps a counter above the one the lookup read, no user is
\* created, and nothing is handed to the hub.
C13_NoRollback ==
  [][\A r \in Reqs : (pc[r] = "insert" /\ pc'[r] = "done" /\ delta[r] = 1) =>
       /\ status'[r] \in {"panic", "409", "500"}
       /\ users' = users /\ nextId' = nextId
       /\ \A u \in user[r] : u.id \in DOMAIN users =>
             users'[u.id].added_by_ref_code > u.added_by_ref_code
       /\ sent' = sent /\ sends' = sends]_vars

\* of two registrations the first created the only user ever inserted and the
\* second, citing that user's code, credited it and was then answered 409
C13_Witness ==
  /\ calls = 2 /\ nextId = 2
  /\ \E r \in Reqs : pc[r] = "done" /\ status[r] = "409"
  /\ \E i \in DOMAIN users : users[i].added_by_ref_code = 1

\* ---------------------------------------------------------------- C14
\* C14: every successful INSERT is followed by one call of send, made or
\* still to be made by the request that inserted (so the events handed to the
\* hub and the successful inserts are equal in number once no request stands
\* between the two); only the step after a successful INSERT hands anything
\* to the hub; the event it hands over is the row its own INSERT returned:
\* the request's name and email, a fresh id and signup counter 0.
C14_OnePublishPerInsert ==
  /\ [](sends + Cardinality({r \in Reqs : pc[r] = "publish"}) = nextId - 1)
  /\ [](Len(sent) <= sends)
  /\ [](\A r \in Reqs : pc[r] = "publish" =>
          \E u \in row[r] :
            /\ row[r] = {u} /\ u.id < nextId /\ u.added_by_ref_code = 0
            /\ u.email = body[r].email /\ u.user_name = body[r].user_name
            /\ \A q \in Reqs \ {r} : \A v \in row[q] : v.id # u.id)
  /\ [][\A r \in Reqs : (pc[r] = "publish" /\ StepOf(r)) =>
          /\ sends' = sends + 1
          /\ sent' # sent => \E u \in row[r] : sent' = Append(sent, EventOf(u))]_vars
  /\ [][(sends' # sends \/ sent' # sent) =>
          \E r \in Reqs : pc[r] = "publish" /\ StepOf(r)]_vars

\* two registrations inserted and each handed its event to the hub, a third
\* was answered 409 and handed over nothing
C14_Witness ==
  /\ nextId = 3 /\ sends = 2 /\ Len(sent) = 2 /\ calls = 3
  /\ sent[1].event_data # sent[2].event_data
  /\ \E r \in Reqs : pc[r] = "done" /\ status[r] = "409"

\* ---------------------------------------------------------------- C15
\* a request that found its referrer and whose credit then matched no row
MissedCredit(r) == user[r] # {} /\ delta[r] = 0

\* C15: whatever the credit statement did, the request goes on to the INSERT
\* with its input intact and no status; a request whose credit matched no row
\* then fares as any other: it panics only on a name that cannot be sliced,
\* is answered 409 or 500 only on an error of its own INSERT, and otherwise
\* inserts its row, calls send with it and is answered 201 when a receiver is
\* alive.
C15_CreditFailureDoesNotAbort ==
  /\ [][\A r \in Reqs : (pc[r] = "credit" /\ StepOf(r)) =>
          /\ pc'[r] = "insert" /\ status'[r] = "none"
          /\ body'[r] = body[r] /\ sent' = sent]_vars
  /\ [][\A r \in Reqs : (pc[r] = "insert" /\ StepOf(r) /\ MissedCredit(r)) =>
          /\ status'[r] = "panic" <=> ~SliceOk(body[r].user_name, 3)
          /\ status'[r] = "409" => dberr'[r].msg = DupMsg
          /\ status'[r] = "500" => dberr'[r] = OtherErr
          /\ status'[r] \in {"none", "panic", "409", "500"}
          /\ status'[r] = "none" =>
                /\ pc'[r] = "publish" /\ MissedCredit(r)'
                /\ \E u \in row'[r] :
                     /\ users' = InsertStmt(users, u)
                     /\ u.email = body[r].email /\ u.user_name = body[r].user_name]_vars
  /\ [][\A r \in Reqs : (pc[r] = "publish" /\ StepOf(r) /\ MissedCredit(r)) =>
          /\ sends' = sends + 1
          /\ Receivers # {} =>
                /\ status'[r] = "201"
                /\ \E u \in row[r] : sent' = Append(sent, EventOf(u))]_vars

\* the referrer was deleted between the lookup and the credit, and the
\* request has inserted its user and stands at the send with a receiver alive
C15_Witness ==
  \E r \in Reqs :
    /\ pc[r] = "publish" /\ MissedCredit(r) /\ Receivers # {}
    /\ \A u \in user[r] : u.id \notin DOMAIN users
    /\ \A u \in row[r] : u.id \in DOMAIN users

\* ---------------------------------------------------------------- C17
\* C17: when two PATCH requests to the same user have both been answered 200,
\* one that supplied only an email and one that supplied only a user name,
\* and no other PATCH wrote that row, the row (if it still exists) holds the
\* email of the first and the user name of the second.
C17_PatchLosesNoUpdate ==
  \A e1, e2 \in Eds :
    ( /\ e1 # e2 /\ eid[e1] = eid[e2] /\ eid[e1] \in DOMAIN users
      /\ epc[e1] = "done" /\ estatus[e1] = "200"
      /\ epc[e2] = "done" /\ estatus[e2] = "200"
      /\ patch[e1].email # {} /\ patch[e1].user_name = {}
      /\ patch[e2].email = {} /\ patch[e2].user_name # {}
      /\ \A e3 \in Eds \ {e1, e2} : eid[e3] # eid[e1] \/ estatus[e3] # "200" )
    => /\ users[eid[e1]].email \in patch[e1].email
       /\ users[eid[e1]].user_name \in patch[e2].user_name

\* ---------------------------------------------------------------- C16
\* the request's page and limit, an omitted page read as 1 and an omitted
\* limit as 10
ReqPage == IF listReq.page = {} THEN Usize(1) ELSE CHOOSE x \in listReq.page : TRUE
ReqLimit == IF listReq.limit = {} THEN Usize(10) ELSE CHOOSE x \in listReq.limit : TRUE

\* the value of a byte string, or a number above every table size when the
\* value is larger than that
Clamp(a) ==
  IF IsZero(SubSeq(a, 4, Len(a))) THEN a[1] + Radix * (a[2] + Radix * a[3])
  ELSE Radix * Radix * Radix

\* the row at position k of the id-ordered table
RowAt(db, k) ==
  db[CHOOSE i \in DOMAIN db : Cardinality({j \in DOMAIN db : j < i}) = k - 1]

\* the positions (p-1)*L+1 .. p*L that the table has
PagePositions ==
  LET lo == Clamp(MulFull(DecLimbs(ReqPage), ReqLimit))
  IN  { k \in 1..Cardinality(DOMAIN users) : lo < k /\ k <= lo + Clamp(ReqLimit) }

RowsAreThePage ==
  /\ listRes.status = "200"
  /\ listRes.results = Len(listRes.users)
  /\ Len(listRes.users) = Cardinality(PagePositions)
  /\ \A j \in 1..Len(listRes.users) :
       listRes.users[j] = RowAt(users, Clamp(MulFull(DecLimbs(ReqPage), ReqLimit)) + j)

\* C16: a list request with page p >= 1 (1 when omitted) and limit L (10 when
\* omitted) is answered with the rows at positions (p-1)*L+1 .. p*L of the
\* id-ordered table, as many as the table has, in id order, and with their
\* number as the result count.
C16_PageOfIdOrder ==
  (listRes.status # "none" /\ ~IsZero(ReqPage)) => RowsAreThePage

\* the same for the requests whose limit and offset an i32 can hold
C16_WithinI32 ==
  ( /\ listRes.status # "none" /\ ~IsZero(ReqPage)
    /\ IsZero(SubSeq(ReqLimit, I32Bytes + 1, UsizeBytes)) /\ ReqLimit[I32Bytes] < Radix \div 2
    /\ LET m == MulFull(DecLimbs(ReqPage), ReqLimit)
       IN  IsZero(SubSeq(m, I32Bytes + 1, Len(m))) /\ m[I32Bytes] < Radix \div 2 )
  => RowsAreThePage

\* ---------------------------------------------------------------- C18
\* C18: for every page and limit the parser accepts, the handler computes its
\* offset without trapping, from a page that is not 0, and the i32 it passes
\* to the store is non-negative and equal to the exact product (page-1)*limit.
C18_OffsetExact ==
  listRes.status # "none" =>
    /\ listRes.status # "panic"
    /\ ~IsZero(PageOf(listReq))
    /\ listRes.offset >= 0
    /\ ToLimbs(listRes.offset, 2 * UsizeBytes)
         = MulFull(DecLimbs(PageOf(listReq)), LimitOf(listReq))
====
